---- MODULE Spec2Model ----
(***************************************************************************)
(* The real-time simulation loop of the three Flappy-Bird variants         *)
(* (src/main1.py, src/mainsonnet4.py, src/mian.py): Game.run, its event    *)
(* drain, Bird.update / Bird.flap, the pipe spawner, collision detection   *)
(* and score keeping.                                                      *)
(*                                                                         *)
(* Arithmetic.  The code computes with Python floats.  The model uses      *)
(* integers in fixed units: time in milliseconds (clock.tick returns an    *)
(* integer number of ms), velocity in 1/100 px/s, positions in 1/100000    *)
(* px, angles in 1/1000 degree.  The tick durations the model draws are    *)
(* multiples of 125 ms = 1/8 s, for which gravity*dt, velocity*dt and      *)
(* speed*dt are dyadic rationals: the float computation of the code is     *)
(* exact on them and so is the integer computation here.  math.sin is a    *)
(* table of sin(n/8) to five decimals.                                     *)
(*                                                                         *)
(* Sprites.  Sizes come from image files (background 288x512, base         *)
(* 336x112, bird frames 34x24, pipe 52x320); all frames of a bird have the *)
(* same size, so the animation index does not reach the simulation and is  *)
(* not part of the state.                                                  *)
(***************************************************************************)
EXTENDS Integers, Sequences, FiniteSets, TLC

VARIABLES
    variant,           \* which source file runs: "main1", "mainsonnet4", "mian"
    state,             \* Game.state
    bird,              \* Game.bird (a Bird object)
    pipes,             \* Game.pipes (list of PipePair, oldest first)
    pipe_spawn_timer,  \* Game.pipe_spawn_timer, ms
    score,             \* Game.score
    high_score,        \* Game.high_score
    running,           \* local of Game.run
    pc,                \* position of the process: "start", "loop" or "exited"
    store,             \* the file highscore.txt: its content, and whether it can be written
    process,           \* what the process leaves behind: exit status, lines printed
    sounds,            \* Game.sounds (a SoundLibrary), and the cues that sounded in the last step
    death_sound_played,  \* local of Game.run
    fuel,              \* bound: ms of PLAYING and GAME_OVER ticks still followed
    last               \* history: the step taken last

vars == <<variant, state, bird, pipes, pipe_spawn_timer, score, high_score,
          running, pc, store, process, sounds, death_sound_played, fuel, last>>

Variants == {"main1", "mainsonnet4", "mian"}

(***************************** units ***************************************)
U == 1000 * 100          \* position units per pixel
VU == 10 * 10            \* velocity units per px/s
AU == 32 * 32            \* angle units per degree (2^-10 degree)

\* int(x) of Python: truncation toward zero, of a value given in 1/d units
Trunc(n, d) == IF n >= 0 THEN n \div d ELSE -((-n) \div d)

Min(a, b) == IF a <= b THEN a ELSE b
Max(a, b) == IF a >= b THEN a ELSE b

\* The rotation is a binary floating-point number: every arithmetic result
\* is rounded to the nearest number with that many significant bits, ties
\* to even.  The rotation is carried with a significand of MantissaBits
\* bits (the doubles of the interpreter have 53) and no step finer than one
\* angle unit.
MantissaBits == 13

\* the number of bits of n >= 0
BitLen(n) == CHOOSE k \in 0 .. 30 : n < 2 ^ k /\ (k = 0 \/ n >= 2 ^ (k - 1))

\* num / den (den > 0) rounded to the nearest integer, ties to even
RoundDiv(num, den) ==
    LET n == IF num >= 0 THEN num ELSE -num
        q == n \div den
        r == n % den
        up == IF 2 * r > den \/ (2 * r = den /\ q % 2 = 1) THEN q + 1 ELSE q
    IN  IF num >= 0 THEN up ELSE -up

\* the floating-point number nearest to num / den
Rounded(num, den) ==
    LET n == IF num >= 0 THEN num ELSE -num
        e == BitLen(n \div den) - MantissaBits
        step == IF e <= 0 THEN 1 ELSE 2 ^ e
    IN  step * RoundDiv(num, den * step)
\* the same, with the operand evaluated once
Fl(num, den) == CHOOSE r \in {Rounded(x, den) : x \in {num}} : TRUE

(***************************** bounds **************************************)
MaxClock == 4500         \* ms of the first round after WELCOME the model follows
MaxClockMian == 3750     \* the same for mian, whose ticks are half as long
MaxReplay == 1000        \* ms of every later round after WELCOME the model follows
MaxWobble == 500         \* largest wobble_timer up to which WELCOME ticks are followed
MaxDrop == 420           \* px below the top edge down to which a bird is followed
MaxClimb == 40           \* px above the top edge up to which a bird is followed
MaxSpawnScore == 40      \* largest score the spawner is driven with

\* tick durations drawn, ms: one near the flap period that keeps the bird
\* aloft under the variant's gravity, one long stall, one stall longer than
\* pipe_spawn_interval and one of twice pipe_spawn_interval
DtSet(v) == IF v = "mian" THEN {125, 1000, 1500, 2500} ELSE {250, 1000, 2000, 3600}
Durations == UNION {DtSet(v) : v \in Variants}
LoadSet == {-1, 0, 2}    \* integers highscore.txt holds when a session of the loop starts
SinSamples == {100000}   \* values of sin(get_ticks()/250) drawn, x 10^5
BiasSet == {20}          \* values of int(20*sin(t*1.3)) drawn in a round

(***************************** sprites *************************************)
screen_width == 288
screen_height == 512
base_height == 112
bird_w == 34
bird_h == 24
pipe_w == 52
pipe_h == 320
base_y == screen_height - base_height

(***************************** tuning constants ****************************)
gravity(v) == IF v = "mian" THEN 1800 ELSE 700
flap_impulse(v) == IF v = "mian" THEN 350 ELSE 280
max_fall_speed(v) == IF v = "mian" THEN 600 ELSE 400
pipe_spawn_interval(v) == IF v = "mian" THEN 1250 ELSE 1800
pipe_gap(v) == IF v = "mian" THEN 100 ELSE 140
pipe_speed == 150
rotation_speed(v) == IF v = "main1" THEN 8 ELSE 6
rot_down_speed == 250
base_pipe_gap == 140
min_pipe_gap == 100
gap_decrease_rate == 2
PruneMargin(v) == IF v = "mian" THEN 10 ELSE 50
GroundTolerance(v) == IF v = "mian" THEN 0 ELSE 5
BottomMargin(v) == IF v = "mian" THEN 10 ELSE 20
\* gravity passed to Bird.update in GAME_OVER: gravity * 1.5, except in mian
death_gravity_plain(v) == gravity(v)
death_gravity(v) == IF v = "mian" THEN 1800 ELSE 1050

(***************************** math.sin ************************************)
\* round(100000 * sin(n / 8)) for n = 0 .. 16
SinTable == <<0, 12467, 24740, 36627, 47943, 58510, 68164, 76754, 84147,
              90227, 94898, 98089, 99749, 99854, 98399, 95409, 90930>>
\* sin of an angle given in 1/8 rad, x 10^5
Sin8(n) == SinTable[n + 1]

(***************************** Bird ****************************************)
StartX(v) == IF v = "mian" THEN screen_width \div 6 ELSE screen_width \div 4
StartY == screen_height \div 2

\* Bird.__init__ with the start position Game passes
NewBird(v) ==
    [position_x |-> StartX(v), position_y |-> StartY * U, velocity_y |-> 0,
     rotation |-> 0, dead |-> FALSE, wobble_timer |-> 0]

\* Bird.rect: main1/mainsonnet4 shrink the sprite rectangle by inflate_ip(-8, -8)
Bird_rect(v, b) ==
    LET x == b.position_x
        y == Trunc(b.position_y, U)
    IN  IF v = "mian"
        THEN [left |-> x, top |-> y, right |-> x + bird_w, bottom |-> y + bird_h]
        ELSE [left |-> x + 4, top |-> y + 4,
              right |-> x + 4 + (bird_w - 8), bottom |-> y + 4 + (bird_h - 8)]

\* velocity_y = min(velocity_y, max_fall_speed)
ClampFallNone(vy, cap) == vy
ClampFall(vy, cap) == Min(vy, cap)

\* rotation += (target - rotation) * min(1.0, rotation_speed * dt): three
\* floating-point operations, each rounded
Ease(rot, target, rs, dt) ==
    LET diff == Fl(target - rot, 1)
        prod == Fl(diff * Min(1000, rs * dt), 1000)
    IN  Fl(rot + prod, 1)

\* target rotation of the velocity-mapped variants
TargetRotation(v, vy) ==
    IF v = "main1"
    THEN Min(25 * AU, Max(-90 * AU, Fl(-vy * 5 * AU, 2 * VU)))
    ELSE IF vy > 0 THEN Min(90 * AU, Fl(vy * 3 * AU, 20 * VU))
                   ELSE Max(-30 * AU, Fl(vy * AU, 5 * VU))

\* Bird.update in flight (is_playing = True; mian has no idle mode)
\* g in px/s^2, dt in ms; first a faulty form that moves the bird by the
\* velocity it had before gravity was applied
Bird_update_stale(v, b, dt, g) ==
    LET vy == ClampFall(b.velocity_y + Trunc(g * dt * VU, 1000), max_fall_speed(v) * VU)
        y  == b.position_y + b.velocity_y * dt
        rot == IF v = "mian"
               THEN IF vy < 0 THEN 45 * AU
                    ELSE IF b.rotation > -90 * AU
                         THEN Max(-90 * AU, Fl(b.rotation * 1000 - rot_down_speed * dt * AU, 1000))
                         ELSE b.rotation
               ELSE Ease(b.rotation, TargetRotation(v, vy), rotation_speed(v), dt)
    IN  [b EXCEPT !.velocity_y = vy, !.position_y = y, !.rotation = rot]
Bird_update(v, b, dt, g) ==
    LET vy == ClampFall(b.velocity_y + Trunc(g * dt * VU, 1000), max_fall_speed(v) * VU)
        y  == b.position_y + vy * dt
        rot == IF v = "mian"
               THEN IF vy < 0 THEN 45 * AU
                    ELSE IF b.rotation > -90 * AU
                         THEN Max(-90 * AU, Fl(b.rotation * 1000 - rot_down_speed * dt * AU, 1000))
                         ELSE b.rotation
               ELSE Ease(b.rotation, TargetRotation(v, vy), rotation_speed(v), dt)
    IN  [b EXCEPT !.velocity_y = vy, !.position_y = y, !.rotation = rot]

\* wobble_timer after an idle update: += dt in main1, += dt * 2.0 in
\* mainsonnet4; mian keeps no wobble timer
WobbleAfter(v, b, dt) ==
    IF v = "main1" THEN b.wobble_timer + dt
    ELSE IF v = "mainsonnet4" THEN b.wobble_timer + 2 * dt
    ELSE b.wobble_timer

\* Bird.update with is_playing = False (main1, mainsonnet4), and the WELCOME
\* branch of mian's Game.run; s is the drawn value of sin(get_ticks()/250);
\* first a faulty form that lets gravity act on the idle bird
Bird_idle_falling(v, b, dt, s) ==
    [b EXCEPT !.velocity_y = b.velocity_y + Trunc(gravity(v) * dt * VU, 1000),
              !.rotation = 0]
Bird_idle(v, b, dt, s) ==
    IF v = "main1"
    THEN LET wt == WobbleAfter(v, b, dt)
             off == 3 * Sin8((3 * wt) \div 125)
         IN  [b EXCEPT !.wobble_timer = wt,
                       !.position_y = b.position_y + Trunc(off * dt, 50),
                       !.rotation = 0]
    ELSE IF v = "mainsonnet4"
    THEN LET wt == WobbleAfter(v, b, dt)
         IN  [b EXCEPT !.wobble_timer = wt,
                       !.position_y = StartY * U + 8 * Sin8(wt \div 125),
                       !.rotation = 0]
    ELSE [b EXCEPT !.position_y = StartY * U + 6 * s, !.rotation = 0]

\* Bird.flap; first a faulty form that adds the impulse to the velocity
Bird_flap_add(v, b, impulse) ==
    IF b.dead THEN b
    ELSE [b EXCEPT !.velocity_y = b.velocity_y - impulse * VU]
Bird_flap(v, b, impulse) ==
    IF b.dead THEN b
    ELSE IF v = "mian"
         THEN [b EXCEPT !.velocity_y = -impulse * VU, !.rotation = 45 * AU]
         ELSE [b EXCEPT !.velocity_y = -impulse * VU]

(***************************** PipePair ************************************)
\* PipePair.__init__: x = float(x), passed = False.  counted is history: how
\* often update_score has added this pipe to the score.
NewPipe(gap_center, gap_size) ==
    [x |-> (screen_width + 10) * U, gap_y |-> gap_center, gap_size |-> gap_size,
     passed |-> FALSE, counted |-> 0]

\* PipePair.update: x -= speed * dt
PipePair_update(p, dt) == [p EXCEPT !.x = p.x - pipe_speed * dt * (U \div 1000)]

\* PipePair.rects: (top_rect, bottom_rect); main1/mainsonnet4 shrink both by
\* inflate_ip(-4, 0)
PipePair_rects(v, p) ==
    LET top_height == p.gap_y - p.gap_size \div 2
        bottom_top == p.gap_y + p.gap_size \div 2
        l == IF v = "mian" THEN Trunc(p.x, U) ELSE Trunc(p.x, U) + 2
        w == IF v = "mian" THEN pipe_w ELSE pipe_w - 4
    IN  <<[left |-> l, top |-> top_height - pipe_h, right |-> l + w, bottom |-> top_height],
          [left |-> l, top |-> bottom_top, right |-> l + w, bottom |-> bottom_top + pipe_h]>>

\* pygame.Rect.colliderect for rectangles of positive size
colliderect(a, b) ==
    /\ a.left < b.right
    /\ a.top < b.bottom
    /\ a.right > b.left
    /\ a.bottom > b.top

(***************************** spawner *************************************)
\* main1: max(min_pipe_gap, base_pipe_gap - (score // gap_decrease_rate) * 5);
\* the other variants use the fixed pipe_gap
current_gap_unfloored(v, sc) ==
    IF v = "main1" THEN base_pipe_gap - (sc \div gap_decrease_rate) * 5 ELSE pipe_gap(v)
current_gap_widening(v, sc) ==
    IF v = "main1"
    THEN Max(min_pipe_gap, base_pipe_gap + (sc \div gap_decrease_rate) * 5)
    ELSE pipe_gap(v)
current_gap(v, sc) ==
    IF v = "main1"
    THEN Max(min_pipe_gap, base_pipe_gap - (sc \div gap_decrease_rate) * 5)
    ELSE pipe_gap(v)

\* int(screen_height * 0.25) + gap // 2
min_center(v, gap) == (screen_height \div 4) + gap \div 2

\* int(base_y - 20 - gap // 2)   (base_y - 10 in mian)
max_center_nogap(v, gap) == base_y - BottomMargin(v)
max_center(v, gap) == base_y - BottomMargin(v) - gap \div 2

\* the values random.randint(min_center, max_center) is drawn from in a round
CenterChoices(v, gap) == {min_center(v, gap), max_center(v, gap)}

\* all values random.randint(min_center, max_center) can return
AllCenters(v, gap) == min_center(v, gap) .. max_center(v, gap)

\* all values int(20 * math.sin(t * 1.3)) can have
AllBias == -20 .. 20

\* the gap centre spawn_pipe gives the new pipe: the drawn centre c, in mian
\* moved by the bias and clamped to [min_center, max_center]
gap_center(v, gap, c, bias) ==
    IF v = "mian"
    THEN Max(min_center(v, gap), Min(max_center(v, gap), c + bias))
    ELSE c

\* Game.spawn_pipe; first a faulty form that puts the new pipe in front
spawn_pipe_front(v, ps, sc, c, bias) ==
    LET gap == current_gap(v, sc)
    IN  <<NewPipe(gap_center(v, gap, c, bias), gap)>> \o ps
spawn_pipe(v, ps, sc, c, bias) ==
    LET gap == current_gap(v, sc)
    IN  Append(ps, NewPipe(gap_center(v, gap, c, bias), gap))

(***************************** collisions **********************************)
\* main1 / mainsonnet4, Game.check_collisions: ground, ceiling, then the two
\* rectangles of every pipe
RectCollisionsStrict(v, b, ps) ==
    LET bird_rect == Bird_rect(v, b)
    IN  \/ bird_rect.bottom > base_y - GroundTolerance(v)
        \/ bird_rect.top <= 0
        \/ \E i \in DOMAIN ps :
              \/ colliderect(bird_rect, PipePair_rects(v, ps[i])[1])
              \/ colliderect(bird_rect, PipePair_rects(v, ps[i])[2])
RectCollisions(v, b, ps) ==
    LET bird_rect == Bird_rect(v, b)
    IN  \/ bird_rect.bottom >= base_y - GroundTolerance(v)
        \/ bird_rect.top <= 0
        \/ \E i \in DOMAIN ps :
              \/ colliderect(bird_rect, PipePair_rects(v, ps[i])[1])
              \/ colliderect(bird_rect, PipePair_rects(v, ps[i])[2])

\* mian: the rotated bird sprite is centred on the centre of bird.rect(); for
\* every angle it lies inside the square of half-side 21 around that centre
RotatedBounds(v, b) ==
    LET r == Bird_rect(v, b)
        cx == r.left + bird_w \div 2
        cy == r.top + bird_h \div 2
    IN  [left |-> cx - 21, top |-> cy - 21, right |-> cx + 21, bottom |-> cy + 21]

\* the centre pixel of the bird sprite, which is opaque at every angle
BirdCore(v, b) ==
    LET r == Bird_rect(v, b)
        cx == r.left + bird_w \div 2
        cy == r.top + bird_h \div 2
    IN  [left |-> cx, top |-> cy, right |-> cx + 1, bottom |-> cy + 1]

\* mian, the results bird_mask.overlap(...) can have for the pipes: the pixels
\* of the sprites are not in the source, so a mask overlap is certain when the
\* centre pixel of the bird is inside a pipe rectangle, impossible when the
\* rotated sprite's rectangle misses both, and open otherwise
MaskOutcomes(v, b, ps) ==
    LET touches(box) == \E i \in DOMAIN ps :
                           \/ colliderect(box, PipePair_rects(v, ps[i])[1])
                           \/ colliderect(box, PipePair_rects(v, ps[i])[2])
    IN  IF touches(BirdCore(v, b)) THEN {TRUE}
        ELSE IF touches(RotatedBounds(v, b)) THEN {TRUE, FALSE}
        ELSE {FALSE}

\* the values Game.check_collisions can return; first a faulty form without
\* the test of the ground line
check_collisions_no_ground(v, b, ps) ==
    IF v = "mian"
    THEN MaskOutcomes(v, b, ps)
    ELSE {\/ Bird_rect(v, b).top <= 0
          \/ \E i \in DOMAIN ps :
                \/ colliderect(Bird_rect(v, b), PipePair_rects(v, ps[i])[1])
                \/ colliderect(Bird_rect(v, b), PipePair_rects(v, ps[i])[2])}
check_collisions(v, b, ps) ==
    IF v = "mian"
    THEN IF Bird_rect(v, b).bottom >= base_y - GroundTolerance(v)
         THEN {TRUE}
         ELSE MaskOutcomes(v, b, ps)
    ELSE {RectCollisions(v, b, ps)}

(***************************** SoundLibrary ********************************)
CueNames == {"wing", "point", "die", "hit", "swoosh"}

\* SoundLibrary.__init__: enabled tells whether pygame.mixer.init() succeeded,
\* loaded holds the names _try_load found a sound for (none when the mixer
\* is not enabled); played lists the cues that sounded in the last step
SoundLibrary(enabled, loaded) ==
    [enabled |-> enabled, loaded |-> IF enabled THEN loaded ELSE {}, played |-> <<>>]

\* SoundLibrary.play; first a faulty form that does not test enabled
play_unguarded(snd, name) == [snd EXCEPT !.played = Append(snd.played, name)]
play(snd, name) ==
    IF snd.enabled /\ name \in snd.loaded
    THEN [snd EXCEPT !.played = Append(snd.played, name)]
    ELSE snd

\* the library at the start of a step: nothing has sounded in it yet
Quiet(snd) == [snd EXCEPT !.played = <<>>]

\* play called for every name of a sequence, in order
RECURSIVE PlayAll(_, _)
PlayAll(snd, names) ==
    IF names = <<>> THEN snd ELSE PlayAll(play(snd, Head(names)), Tail(names))

\* a step that requests no cue and leaves death_sound_played alone
Silent ==
    /\ sounds' = Quiet(sounds)
    /\ death_sound_played' = death_sound_played

(***************************** highscore.txt *******************************)
\* A text is a sequence of one-character strings.  The file is a record:
\* whether it exists (open(..., "r") raises when it does not), its content,
\* and whether open(..., "w") succeeds.
File(c, w) == [exists |-> TRUE, content |-> c, writable |-> w]
NoFile(w) == [exists |-> FALSE, content |-> <<>>, writable |-> w]
DigitChars == <<"0", "1", "2", "3", "4", "5", "6", "7", "8", "9">>
Whitespace == {" ", "\n"}

IsDigit(c) == \E k \in 1 .. 10 : DigitChars[k] = c
DigitValue(c) == (CHOOSE k \in 1 .. 10 : DigitChars[k] = c) - 1

\* str(n) of an int: decimal digits, most significant first, "-" in front of
\* a negative number
RECURSIVE DigitsOf(_)
DigitsOf(n) ==
    IF n < 10 THEN <<DigitChars[n + 1]>>
    ELSE Append(DigitsOf(n \div 10), DigitChars[(n % 10) + 1])
str(n) == IF n < 0 THEN <<"-">> \o DigitsOf(-n) ELSE DigitsOf(n)

\* str.strip(): leading and trailing whitespace removed
RECURSIVE strip(_)
strip(t) ==
    IF t = <<>> THEN t
    ELSE IF t[1] \in Whitespace THEN strip(Tail(t))
    ELSE IF t[Len(t)] \in Whitespace THEN strip(SubSeq(t, 1, Len(t) - 1))
    ELSE t

\* the digit groups int() accepts after the sign: digits, single underscores
\* only between digits
WellFormed(d) ==
    /\ d # <<>>
    /\ IsDigit(d[1])
    /\ IsDigit(d[Len(d)])
    /\ \A i \in DOMAIN d : IsDigit(d[i]) \/ d[i] = "_"
    /\ \A i \in 1 .. Len(d) - 1 : d[i] = "_" => d[i + 1] # "_"

\* the value of the first k characters of a well-formed digit group
RECURSIVE ValueOf(_, _)
ValueOf(d, k) ==
    IF k = 0 THEN 0
    ELSE IF d[k] = "_" THEN ValueOf(d, k - 1)
    ELSE 10 * ValueOf(d, k - 1) + DigitValue(d[k])

\* int(text) of a stripped text: an optional sign and a digit group give a
\* value, anything else raises ValueError
int(t) ==
    LET signed == t # <<>> /\ t[1] \in {"-", "+"}
        d == IF signed THEN Tail(t) ELSE t
    IN  IF ~WellFormed(d) THEN [raises |-> TRUE, value |-> 0]
        ELSE IF signed /\ t[1] = "-"
             THEN [raises |-> FALSE, value |-> -ValueOf(d, Len(d))]
             ELSE [raises |-> FALSE, value |-> ValueOf(d, Len(d))]

\* Game._load_high_score (main1, mainsonnet4): int(f.read().strip()), and 0
\* when open or int raises; first a faulty form that lets the failure through as -1
_load_high_score_nodefault(st) ==
    IF ~st.exists THEN -1
    ELSE IF int(strip(st.content)).raises THEN -1
    ELSE int(strip(st.content)).value
_load_high_score(st) ==
    IF ~st.exists THEN 0
    ELSE IF int(strip(st.content)).raises THEN 0
    ELSE int(strip(st.content)).value

\* Game._save_high_score (main1, mainsonnet4): the file is rewritten with
\* str(high_score); when open(..., "w") raises, nothing happens.  First a
\* faulty form that opens the file to append.
_save_high_score_append(st, hs) ==
    IF st.writable
    THEN File(st.content \o str(hs), TRUE)
    ELSE st
_save_high_score(st, hs) ==
    IF st.writable THEN File(str(hs), TRUE) ELSE st

\* the high score a fresh Game starts with: Game.__init__
InitialHighScore(v, st) == IF v = "mian" THEN 0 ELSE _load_high_score(st)

(***************************** score ***************************************)
\* the x the right edge of a pipe is compared with: bird.position_x in
\* main1/mainsonnet4, bird.rect().left in mian
ScoreLineAhead(v, b) == Bird_rect(v, b).right + pipe_w
ScoreLine(v, b) == IF v = "mian" THEN Bird_rect(v, b).left ELSE b.position_x

\* not pipe.passed and pipe.x + pipe.width < bird.position_x
ScoresAgain(v, b, p) == p.x + pipe_w * U < ScoreLine(v, b) * U
Scores(v, b, p) == ~p.passed /\ p.x + pipe_w * U < ScoreLine(v, b) * U

\* high_score after score was raised to sc: "if score > high_score:
\* high_score = score" (main1, mainsonnet4), max(high_score, score) (mian);
\* first a faulty form that assigns without comparing
RaiseHighAlways(v, hs, sc) == sc
RaiseHigh(v, hs, sc) == IF sc > hs THEN sc ELSE hs

\* the file after score was raised to sc: main1 and mainsonnet4 save when
\* the high score is raised, mian never saves
SaveOnRaise(v, st, hs, sc) ==
    IF v # "mian" /\ sc > hs THEN _save_high_score(st, sc) ELSE st

\* Game.update_score: the loop over self.pipes, from index i on
RECURSIVE update_score_from(_, _, _, _, _, _, _)
update_score_from(v, b, ps, i, sc, hs, st) ==
    IF i > Len(ps)
    THEN [pipes |-> ps, score |-> sc, high_score |-> hs, store |-> st]
    ELSE IF Scores(v, b, ps[i])
         THEN update_score_from(v, b,
                  [ps EXCEPT ![i].passed = TRUE, ![i].counted = ps[i].counted + 1],
                  i + 1, sc + 1, RaiseHigh(v, hs, sc + 1),
                  SaveOnRaise(v, st, hs, sc + 1))
         ELSE update_score_from(v, b, ps, i + 1, sc, hs, st)

\* a faulty form: the loop leaves at the first pipe it counts
update_score_first(v, b, ps, sc, hs, st) ==
    IF \E i \in DOMAIN ps : Scores(v, b, ps[i])
    THEN LET i == CHOOSE k \in DOMAIN ps :
                     /\ Scores(v, b, ps[k])
                     /\ \A j \in 1 .. k - 1 : ~Scores(v, b, ps[j])
         IN  [pipes |-> [ps EXCEPT ![i].passed = TRUE, ![i].counted = ps[i].counted + 1],
              score |-> sc + 1, high_score |-> RaiseHigh(v, hs, sc + 1),
              store |-> SaveOnRaise(v, st, hs, sc + 1)]
    ELSE [pipes |-> ps, score |-> sc, high_score |-> hs, store |-> st]
update_score(v, b, ps, sc, hs, st) == update_score_from(v, b, ps, 1, sc, hs, st)

(***************************** session **************************************)
\* Game.reset: the session fields it assigns (high_score is not among them)
reset_keep(v, ps, t, sc) ==
    [state |-> "WELCOME", bird |-> NewBird(v), pipes |-> ps,
     pipe_spawn_timer |-> t, score |-> sc]
reset(v, ps, t, sc) ==
    [state |-> "WELCOME", bird |-> NewBird(v), pipes |-> <<>>,
     pipe_spawn_timer |-> 0, score |-> 0]

\* Game.state after handle_input has handled a flap input in state st
StateOnFlapRestart(st) ==
    IF st = "WELCOME" THEN "PLAYING" ELSE "WELCOME"
StateOnFlap(st) ==
    IF st = "WELCOME" THEN "PLAYING"
    ELSE IF st = "PLAYING" THEN "PLAYING"
    ELSE "WELCOME"

\* the bird after the WELCOME branch of handle_input: main1 and mainsonnet4
\* call bird.flap(flap_impulse), mian does not
WelcomeFlap(v, b) ==
    IF v = "mian" THEN b ELSE Bird_flap(v, b, flap_impulse(v))

\* "self.bird.dead = True" of the collision branch of Game.run
KillNot(b) == b
Kill(b) == [b EXCEPT !.dead = TRUE]

Events == {"QUIT", "K_ESCAPE", "K_SPACE", "MOUSEBUTTON1"}
FlapEvents == {"K_SPACE", "MOUSEBUTTON1"}

\* the events that end the loop: pygame.QUIT everywhere, the escape key in
\* main1 and mainsonnet4 (mian passes it to handle_input, which ignores it)
StopsLoop(v, e) == e = "QUIT" \/ (e = "K_ESCAPE" /\ v # "mian")

Step(op, from, hit, dt) == [op |-> op, from |-> from, hit |-> hit, dt |-> dt]

\* the files a session of the loop starts with: writable, holding str(n)
StoreSet == {File(str(n), TRUE) : n \in LoadSet}
\* mian opens no file
NoStore == NoFile(TRUE)

\* a process that has not ended and has printed nothing
NewProcess == [exit_status |-> "none", stdout |-> 0, stderr |-> 0]

Init ==
    /\ variant \in Variants
    /\ state = "WELCOME"
    /\ bird = NewBird(variant)
    /\ pipes = <<>>
    /\ pipe_spawn_timer = 0
    /\ score = 0
    /\ store \in (IF variant = "mian" THEN {NoStore} ELSE StoreSet)
    /\ high_score = InitialHighScore(variant, store)
    /\ running = TRUE
    /\ pc = "loop"
    /\ process = NewProcess
    /\ sounds = SoundLibrary(TRUE, CueNames)
    /\ death_sound_played = FALSE
    /\ fuel = IF variant = "mian" THEN MaxClockMian ELSE MaxClock
    /\ last = Step("init", "WELCOME", FALSE, 0)

\* one event of the drain "for event in pygame.event.get()": a quit request
Quit(e) ==
    /\ pc = "loop"
    /\ StopsLoop(variant, e)
    /\ running' = FALSE
    /\ last' = Step("quit", state, FALSE, 0)
    /\ Silent
    /\ UNCHANGED <<variant, state, bird, pipes, pipe_spawn_timer, score, high_score, pc,
                   store, process, fuel>>

\* one event of the drain that handle_input ignores
Ignored(e) ==
    /\ pc = "loop"
    /\ ~StopsLoop(variant, e)
    /\ e \notin FlapEvents
    /\ last' = Step("ignored", state, FALSE, 0)
    /\ Silent
    /\ UNCHANGED <<variant, state, bird, pipes, pipe_spawn_timer, score, high_score,
                   running, pc, store, process, fuel>>

\* Game.handle_input for space / up / left mouse button
handle_input(e) ==
    /\ pc = "loop"
    /\ e \in FlapEvents
    /\ last' = Step("flap", state, FALSE, 0)
    /\ IF state = "WELCOME"
       THEN /\ state' = StateOnFlap(state)
            /\ bird' = WelcomeFlap(variant, bird)
            /\ UNCHANGED <<pipes, pipe_spawn_timer, score, fuel>>
       ELSE IF state = "PLAYING"
       THEN /\ state' = StateOnFlap(state)
            /\ bird' = Bird_flap(variant, bird, flap_impulse(variant))
            /\ UNCHANGED <<pipes, pipe_spawn_timer, score, fuel>>
       ELSE LET r == reset(variant, pipes, pipe_spawn_timer, score)
            IN  /\ state' = StateOnFlap(state)
                /\ bird' = r.bird
                /\ pipes' = r.pipes
                /\ pipe_spawn_timer' = r.pipe_spawn_timer
                /\ score' = r.score
                /\ fuel' = MaxReplay
    /\ sounds' = IF state = "WELCOME" THEN play(Quiet(sounds), "swoosh")
                 ELSE IF state = "PLAYING" THEN play(Quiet(sounds), "wing")
                 ELSE Quiet(sounds)
    /\ UNCHANGED <<variant, high_score, running, pc, store, process, death_sound_played>>

\* the loop test "while running" after the body of an iteration; when it
\* fails, run() and main() return and the process ends with status 0.
\* First a faulty form that tests nothing.
LoopTestNever ==
    /\ pc' = "loop"
    /\ process' = process
LoopTest ==
    /\ pc' = IF running THEN "loop" ELSE "exited"
    /\ process' = IF running THEN process ELSE [process EXCEPT !.exit_status = 0]

\* the ticks the model follows
Followed(dt) ==
    /\ dt \in DtSet(variant)
    /\ \/ bird.position_y < MaxDrop * U
       \/ state = "GAME_OVER" /\ ~death_sound_played   \* until 'die' has sounded
    /\ bird.position_y > -MaxClimb * U
    /\ IF state = "WELCOME"
       THEN /\ WobbleAfter(variant, bird, dt) <= MaxWobble
            /\ fuel' = fuel
       ELSE /\ dt <= fuel
            /\ fuel' = fuel - dt

\* the rest of an iteration of Game.run in WELCOME
TickWelcome(dt) ==
    /\ pc = "loop"
    /\ state = "WELCOME"
    /\ Followed(dt)
    /\ \E s \in (IF variant = "mian" THEN SinSamples ELSE {0}) :
          bird' = Bird_idle(variant, bird, dt, s)
    /\ last' = Step("tick", state, FALSE, dt)
    /\ LoopTest
    /\ Silent
    /\ UNCHANGED <<variant, state, pipes, pipe_spawn_timer, score, high_score, running,
                   store>>

\* self.pipes = [p for p in self.pipes if p.x + p.width > -margin]
KeptAtMargin(v, p) == p.x + pipe_w * U >= -PruneMargin(v) * U
Kept(v, p) == p.x + pipe_w * U > -PruneMargin(v) * U
\* a faulty form: the collection is not pruned before the collision test and
\* the score update
PruneSkipped(v, ps) == ps
Prune(v, ps) == SelectSeq(ps, LAMBDA p : Kept(v, p))

\* pipe_spawn_timer after "pipe_spawn_timer += dt; if pipe_spawn_timer >=
\* pipe_spawn_interval: pipe_spawn_timer = 0.0"; first a faulty form that
\* carries the time beyond the interval over
pipe_spawn_timer_carried(v, t, dt) ==
    IF t + dt >= pipe_spawn_interval(v) THEN t + dt - pipe_spawn_interval(v) ELSE t + dt
pipe_spawn_timer_after(v, t, dt) ==
    IF t + dt >= pipe_spawn_interval(v) THEN 0 ELSE t + dt

\* the rest of an iteration of Game.run in PLAYING
TickPlaying(dt) ==
    /\ pc = "loop"
    /\ state = "PLAYING"
    /\ Followed(dt)
    /\ LET t1 == pipe_spawn_timer + dt
           fire == t1 >= pipe_spawn_interval(variant)
           gap == current_gap(variant, score)
       IN  \E b1 \in {Bird_update(variant, bird, dt, gravity(variant))} :
           \E c \in (IF fire THEN CenterChoices(variant, gap) ELSE {0}) :
           \E bias \in (IF fire /\ variant = "mian" THEN BiasSet ELSE {0}) :
           LET ps1 == IF fire THEN spawn_pipe(variant, pipes, score, c, bias) ELSE pipes
               ps2 == [i \in DOMAIN ps1 |-> PipePair_update(ps1[i], dt)]
               ps3 == Prune(variant, ps2)
           IN  \E hit \in check_collisions(variant, b1, ps3) :
               LET b2 == IF hit THEN Kill(b1) ELSE b1
                   us == update_score(variant, b2, ps3, score, high_score, store)
               IN  /\ pipe_spawn_timer' = pipe_spawn_timer_after(variant, pipe_spawn_timer, dt)
                   /\ state' = IF hit THEN "GAME_OVER" ELSE "PLAYING"
                   /\ bird' = b2
                   /\ pipes' = us.pipes
                   /\ score' = us.score
                   /\ high_score' = us.high_score
                   /\ store' = us.store
                   /\ sounds' = PlayAll(Quiet(sounds),
                                    (IF hit THEN <<"hit">> ELSE <<>>)
                                    \o [k \in 1 .. us.score - score |-> "point"])
                   /\ death_sound_played' = IF hit THEN FALSE ELSE death_sound_played
                   /\ last' = Step("tick", state, hit, dt)
    /\ LoopTest
    /\ UNCHANGED <<variant, running>>

\* "not death_sound_played and self.bird.rect().bottom >= self.base_y - 1";
\* first a faulty form that does not look at death_sound_played
die_cue_due_unlatched(v, b, played) == Bird_rect(v, b).bottom >= base_y - 1
die_cue_due(v, b, played) == ~played /\ Bird_rect(v, b).bottom >= base_y - 1

\* the rest of an iteration of Game.run in GAME_OVER
TickGameOver(dt) ==
    /\ pc = "loop"
    /\ state = "GAME_OVER"
    /\ Followed(dt)
    /\ bird' = Bird_update(variant, bird, dt, death_gravity(variant))
    /\ LET landed == die_cue_due(variant, bird', death_sound_played)
       IN  /\ death_sound_played' = (death_sound_played \/ landed)
           /\ sounds' = IF landed THEN play(Quiet(sounds), "die") ELSE Quiet(sounds)
    /\ last' = Step("tick", state, FALSE, dt)
    /\ LoopTest
    /\ UNCHANGED <<variant, state, pipes, pipe_spawn_timer, score, high_score, running,
                   store>>

Next ==
    \/ \E e \in Events : Quit(e)
    \/ \E e \in Events : Ignored(e)
    \/ \E e \in Events : handle_input(e)
    \/ \E dt \in Durations : TickWelcome(dt)
    \/ \E dt \in Durations : TickPlaying(dt)
    \/ \E dt \in Durations : TickGameOver(dt)

Spec == Init /\ [][Next]_vars

(***************************** the spawner alone ***************************)
\* Game.spawn_pipe reads the score and nothing else of the session: here it
\* is applied once at every score up to MaxSpawnScore, with every value the
\* random centre and the bias can have
SpawnInit ==
    /\ variant \in Variants
    /\ state = "PLAYING"
    /\ bird = NewBird(variant)
    /\ pipes = <<>>
    /\ pipe_spawn_timer = 0
    /\ score \in 0 .. MaxSpawnScore
    /\ high_score = score
    /\ running = TRUE
    /\ pc = "loop"
    /\ store = NoStore
    /\ process = NewProcess
    /\ sounds = SoundLibrary(TRUE, CueNames)
    /\ death_sound_played = FALSE
    /\ fuel = 0
    /\ last = Step("init", "PLAYING", FALSE, 0)

SpawnOne ==
    /\ pipes = <<>>
    /\ \E c \in AllCenters(variant, current_gap(variant, score)) :
       \E bias \in (IF variant = "mian" THEN AllBias ELSE {0}) :
          pipes' = spawn_pipe(variant, pipes, score, c, bias)
    /\ last' = Step("spawn", state, FALSE, 0)
    /\ Silent
    /\ UNCHANGED <<variant, state, bird, pipe_spawn_timer, score, high_score,
                   running, pc, store, process, fuel>>

SpawnNext == SpawnOne

SpawnSpec == SpawnInit /\ [][SpawnNext]_vars

(***************************** methods called alone ************************)
\* a session in PLAYING whose objects are given
Session(v, b, ps, sc, hs, st) ==
    /\ variant = v
    /\ state = "PLAYING"
    /\ bird = b
    /\ pipes = ps
    /\ pipe_spawn_timer = 0
    /\ score = sc
    /\ high_score = hs
    /\ running = TRUE
    /\ pc = "loop"
    /\ store = st
    /\ process = NewProcess
    /\ sounds = SoundLibrary(TRUE, CueNames)
    /\ death_sound_played = FALSE
    /\ fuel = 0
    /\ last = Step("init", "PLAYING", FALSE, 0)

\* Bird.flap reads the bird and nothing else: it is called once and twice
\* on birds of every drawn velocity, alive and dead
FlapVelocities == {-350, -280, -100, 0, 150, 400, 600}
FlapRotations == {-90, 0, 45}
ImpulseSet == {280, 350}

FlapInit ==
    \E v \in Variants, vy \in FlapVelocities, rot \in FlapRotations, d \in BOOLEAN :
        Session(v, [NewBird(v) EXCEPT !.velocity_y = vy * VU, !.rotation = rot * AU,
                                      !.dead = d],
                <<>>, 0, 0, NoStore)

FlapOne(impulse) ==
    /\ last.op \in {"init", "flap"}
    /\ bird' = Bird_flap(variant, bird, impulse)
    /\ last' = Step(IF last.op = "init" THEN "flap" ELSE "flap2", state, FALSE, 0)
    /\ Silent
    /\ UNCHANGED <<variant, state, pipes, pipe_spawn_timer, score, high_score,
                   running, pc, store, process, fuel>>

FlapNext == \E impulse \in ImpulseSet : FlapOne(impulse)

FlapSpec == FlapInit /\ [][FlapNext]_vars

\* The prune step, check_collisions and update_score read the bird and the
\* pipes.  A pipe is spawned at screen_width + 10 and moves by speed * dt in
\* every tick, so after t ms it is at screen_width + 10 - speed * t / 1000;
\* the pipes drawn are of the ages at which a pipe reaches the bird's hitbox,
\* leaves it, passes the score line and reaches the prune margin.  Two pipes
\* are as close as speed * dt of the tick that spawned the first one when
\* the next tick is a stall longer than pipe_spawn_interval.
AgeSet == {0, 1320, 1321, 1806, 1807, 1853, 1854, 2013, 2014, 2399, 2400, 2401,
           2666, 2667}
\* heights of the bird, 1/2 px: around the ceiling, the gap edges, the ground
HeightSet == {-9, -8, -7, -6, 246, 248, 400, 496, 498, 748, 749, 750, 751}

AgedPipe(v, t, passed) ==
    [NewPipe(min_center(v, current_gap(v, 0)), current_gap(v, 0))
        EXCEPT !.x = (screen_width + 10) * U - pipe_speed * t * (U \div 1000),
               !.passed = passed,
               !.counted = IF passed THEN 1 ELSE 0]

\* a pipe update_score has flagged is behind the bird
Flaggable(v, t) ==
    IF Scores(v, NewBird(v), AgedPipe(v, t, FALSE)) THEN BOOLEAN ELSE {FALSE}

\* Game.pipes holds the pipes oldest first
PipeLists(v) ==
    {<<>>}
    \cup {<<AgedPipe(v, t, f)>> : <<t, f>> \in {<<t, f>> \in AgeSet \X BOOLEAN :
                                                 f \in Flaggable(v, t)}}
    \cup {<<AgedPipe(v, w[1], w[2]), AgedPipe(v, w[3], w[4])>> :
             w \in {w \in AgeSet \X BOOLEAN \X AgeSet \X BOOLEAN :
                       /\ w[1] > w[3]
                       /\ w[2] \in Flaggable(v, w[1])
                       /\ w[4] \in Flaggable(v, w[3])}}

PipeInit ==
    \E v \in Variants, h \in HeightSet :
    \E ps \in PipeLists(v) :
        Session(v, [NewBird(v) EXCEPT !.position_y = h * (U \div 2)], ps, 0, 0, NoStore)

\* the prune step of the PLAYING branch; the step records whether a pipe
\* stood exactly at the margin before it
PruneOne ==
    /\ last.op = "init"
    /\ pipes' = Prune(variant, pipes)
    /\ last' = Step("prune", state,
                    \E i \in DOMAIN pipes :
                        pipes[i].x + pipe_w * U = -PruneMargin(variant) * U, 0)
    /\ Silent
    /\ UNCHANGED <<variant, state, bird, pipe_spawn_timer, score, high_score,
                   running, pc, store, process, fuel>>

\* Game.check_collisions; the step records what it returned
CheckOne ==
    /\ last.op = "init"
    /\ \E hit \in check_collisions(variant, bird, pipes) :
          last' = Step("check", state, hit, 0)
    /\ Silent
    /\ UNCHANGED <<variant, state, bird, pipes, pipe_spawn_timer, score, high_score,
                   running, pc, store, process, fuel>>

\* Game.update_score
ScoreOne ==
    /\ last.op = "init"
    /\ LET us == update_score(variant, bird, pipes, score, high_score, store)
       IN  /\ pipes' = us.pipes
           /\ score' = us.score
           /\ high_score' = us.high_score
           /\ store' = us.store
           /\ sounds' = PlayAll(Quiet(sounds), [k \in 1 .. us.score - score |-> "point"])
    /\ death_sound_played' = death_sound_played
    /\ last' = Step("score", state, FALSE, 0)
    /\ UNCHANGED <<variant, state, bird, pipe_spawn_timer, running, pc, process, fuel>>

PipeNext == PruneOne \/ CheckOne \/ ScoreOne

PipeSpec == PipeInit /\ [][PipeNext]_vars

\* The file highscore.txt of main1 and mainsonnet4 alone: _save_high_score,
\* _load_high_score and update_score are called on drawn files, writable or
\* not, and drawn scores.
MaxBest == 25            \* largest high score drawn
BestSet == 0 .. MaxBest
CorruptContents == {<<>>, <<"x">>, <<"1", ".", "5">>, <<"-">>, <<"1", "_">>}
ContentSet ==
    {<<"7">>, <<" ", "7", "\n">>, <<"-", "1">>, <<"+", "3">>, <<"1", "_", "0">>}
    \cup CorruptContents
FileSet == {File(c, w) : c \in ContentSet, w \in BOOLEAN} \cup {NoFile(w) : w \in BOOLEAN}
FileVariants == {"main1", "mainsonnet4"}

StoreInit ==
    \E v \in FileVariants, f \in FileSet, hs \in BestSet :
    \E sc \in {0, hs} :
    \E ps \in {<<>>, <<AgedPipe(v, 2014, FALSE)>>} :
        Session(v, NewBird(v), ps, sc, hs, f)

\* Game._save_high_score
SaveOne ==
    /\ last.op = "init"
    /\ store' = _save_high_score(store, high_score)
    /\ last' = Step("save", state, FALSE, 0)
    /\ Silent
    /\ UNCHANGED <<variant, state, bird, pipes, pipe_spawn_timer, score, high_score,
                   running, pc, process, fuel>>

\* self.high_score = self._load_high_score() of Game.__init__: at the start
\* of a process ("load"), or of the next one after a save ("reload")
LoadOne ==
    /\ last.op \in {"init", "save"}
    /\ high_score' = _load_high_score(store)
    /\ last' = Step(IF last.op = "save" THEN "reload" ELSE "load", state, FALSE, 0)
    /\ Silent
    /\ UNCHANGED <<variant, state, bird, pipes, pipe_spawn_timer, score,
                   running, pc, store, process, fuel>>

StoreNext == SaveOne \/ LoadOne \/ ScoreOne

StoreSpec == StoreInit /\ [][StoreNext]_vars

(***************************** main() *************************************)
\* main() runs Game().run() inside try / except Exception.  The process
\* starts before Game() is constructed; construction (display setup, asset
\* load) and every iteration of the loop call into pygame and can raise.
MaxExitClock == 1000     \* ms of PLAYING and GAME_OVER ticks followed here

ExitInit ==
    /\ variant \in Variants
    /\ state = "WELCOME"
    /\ bird = NewBird(variant)
    /\ pipes = <<>>
    /\ pipe_spawn_timer = 0
    /\ score = 0
    /\ store = NoStore
    /\ high_score = InitialHighScore(variant, store)
    /\ running = TRUE
    /\ pc = "start"
    /\ process = NewProcess
    /\ sounds = SoundLibrary(TRUE, CueNames)
    /\ death_sound_played = FALSE
    /\ fuel = MaxExitClock
    /\ last = Step("init", "WELCOME", FALSE, 0)

\* Game() has returned and run() enters the loop
Startup ==
    /\ pc = "start"
    /\ pc' = "loop"
    /\ last' = Step("start", state, FALSE, 0)
    /\ Silent
    /\ UNCHANGED <<variant, state, bird, pipes, pipe_spawn_timer, score, high_score,
                   running, store, process, fuel>>

\* the except clause of main(): print(f"Error: {exc}") writes one line to
\* standard output, then pygame.quit() and sys.exit(1)
main_except(p) == [p EXCEPT !.stdout = p.stdout + 1, !.exit_status = 1]

\* an exception escapes Game() or the loop
Raise ==
    /\ pc \in {"start", "loop"}
    /\ pc' = "exited"
    /\ process' = main_except(process)
    /\ last' = Step("raise", state, FALSE, 0)
    /\ Silent
    /\ UNCHANGED <<variant, state, bird, pipes, pipe_spawn_timer, score, high_score,
                   running, store, fuel>>

ExitNext == Next \/ Startup \/ Raise

ExitSpec == ExitInit /\ [][ExitNext]_vars

(***************************** a long round ********************************)
\* The pipe side of the PLAYING branch: spawn timer, spawn_pipe, advance,
\* prune and update_score.  It reads bird.position_x and nothing else of the
\* bird, and position_x never changes; the bird's flight and check_collisions
\* are left out here, as in a round in which flaps keep the bird clear of
\* contact, so that the round can be followed up to high scores.
MaxRoundClock == 45000   \* ms of such a round followed

RoundInit ==
    /\ variant = "main1"   \* the variant whose gap depends on the score
    /\ state = "PLAYING"
    /\ bird = Bird_flap(variant, NewBird(variant), flap_impulse(variant))
    /\ pipes = <<>>
    /\ pipe_spawn_timer = 0
    /\ score = 0
    /\ store = NoStore
    /\ high_score = InitialHighScore(variant, store)
    /\ running = TRUE
    /\ pc = "loop"
    /\ process = NewProcess
    /\ sounds = SoundLibrary(TRUE, CueNames)
    /\ death_sound_played = FALSE
    /\ fuel = MaxRoundClock
    /\ last = Step("flap", "WELCOME", FALSE, 0)

RoundTick(dt) ==
    /\ pc = "loop"
    /\ state = "PLAYING"
    /\ Followed(dt)
    /\ LET t1 == pipe_spawn_timer + dt
           fire == t1 >= pipe_spawn_interval(variant)
           gap == current_gap(variant, score)
       IN  \E c \in (IF fire THEN CenterChoices(variant, gap) ELSE {0}) :
           \E bias \in (IF fire /\ variant = "mian" THEN BiasSet ELSE {0}) :
           LET ps1 == IF fire THEN spawn_pipe(variant, pipes, score, c, bias) ELSE pipes
               ps2 == [i \in DOMAIN ps1 |-> PipePair_update(ps1[i], dt)]
               ps3 == Prune(variant, ps2)
               us == update_score(variant, bird, ps3, score, high_score, store)
           IN  /\ pipe_spawn_timer' = pipe_spawn_timer_after(variant, pipe_spawn_timer, dt)
               /\ pipes' = us.pipes
               /\ score' = us.score
               /\ high_score' = us.high_score
               /\ store' = us.store
               /\ sounds' = PlayAll(Quiet(sounds), [k \in 1 .. us.score - score |-> "point"])
               /\ last' = Step("tick", state, FALSE, dt)
    /\ LoopTest
    /\ UNCHANGED <<variant, state, bird, running, death_sound_played>>

\* the tick durations of the long round, ms
RoundDt(v) == DtSet(v) \ {1000, 1500, 2000}

RoundNext == \E dt \in RoundDt(variant) : RoundTick(dt)

RoundSpec == RoundInit /\ [][RoundNext]_vars

(***************************** a fall from rest *****************************)
\* Bird.update called in flight mode on a bird at rest, tick after tick with
\* dt = 0.1 s and the variant's gravity (700 in main1 and mainsonnet4, 1800
\* in mian), from every drawn height
FallDt == 100          \* ms
MaxFallTicks == 5
MaxStartHeight == 20   \* start heights k * 16 px, k up to this

FallInit ==
    /\ variant \in Variants
    /\ state = "PLAYING"
    /\ \E k \in 0 .. MaxStartHeight :
          bird = [NewBird(variant) EXCEPT !.position_y = k * 16 * U]
    /\ pipes = <<>>
    /\ pipe_spawn_timer = 0
    /\ score = 0
    /\ store = NoStore
    /\ high_score = 0
    /\ running = TRUE
    /\ pc = "loop"
    /\ process = NewProcess
    /\ sounds = SoundLibrary(TRUE, CueNames)
    /\ death_sound_played = FALSE
    /\ fuel = MaxFallTicks * FallDt
    /\ last = Step("init", "PLAYING", FALSE, 0)

FallTick ==
    /\ fuel >= FallDt
    /\ bird' = Bird_update(variant, bird, FallDt, gravity(variant))
    /\ fuel' = fuel - FallDt
    /\ last' = Step("fall", state, FALSE, FallDt)
    /\ UNCHANGED <<variant, state, pipes, pipe_spawn_timer, score, high_score,
                   running, pc, store, process, sounds, death_sound_played>>

FallNext == FallTick

FallSpec == FallInit /\ [][FallNext]_vars

(***************************** a flapping flight ***************************)
\* Bird.update called in flight mode frame after frame with the variant's
\* gravity and rotation_speed, and Bird.flap between frames, from a new
\* bird that has flapped once.  The frames are a normal one, slow
\* ones for which rotation_speed * dt stays below 1, and one for which the
\* easing factor is the clamped 1.0.
RotDt == {17, 50, 130, 250}   \* ms
MaxRotTicks == 5

RotInit ==
    /\ variant \in Variants
    /\ state = "PLAYING"
    /\ bird = Bird_flap(variant, NewBird(variant), flap_impulse(variant))
    /\ pipes = <<>>
    /\ pipe_spawn_timer = 0
    /\ score = 0
    /\ store = NoStore
    /\ high_score = 0
    /\ running = TRUE
    /\ pc = "loop"
    /\ process = NewProcess
    /\ sounds = SoundLibrary(TRUE, CueNames)
    /\ death_sound_played = FALSE
    /\ fuel = MaxRotTicks
    /\ last = Step("init", "PLAYING", FALSE, 0)

RotTick(dt) ==
    /\ fuel >= 1
    /\ bird' = Bird_update(variant, bird, dt, gravity(variant))
    /\ fuel' = fuel - 1
    /\ last' = Step("frame", state, FALSE, dt)
    /\ UNCHANGED <<variant, state, pipes, pipe_spawn_timer, score, high_score,
                   running, pc, store, process, sounds, death_sound_played>>

RotFlap ==
    /\ fuel >= 1
    /\ last.op = "frame"
    /\ bird' = Bird_flap(variant, bird, flap_impulse(variant))
    /\ last' = Step("flap", state, FALSE, 0)
    /\ UNCHANGED <<variant, state, pipes, pipe_spawn_timer, score, high_score,
                   running, pc, store, process, sounds, death_sound_played, fuel>>

RotNext == (\E dt \in RotDt : RotTick(dt)) \/ RotFlap

RotSpec == RotInit /\ [][RotNext]_vars

(***************************** a round left alone **************************)
\* Game.run from a PLAYING state on, with no input: the loop goes round and
\* round (clock.tick returns, the iteration runs), so the tick of the state
\* the session is in is taken again and again.  The round starts at a drawn
\* height and velocity, with no pipe or with one pipe a second old.
MaxLiveClock == 4000     \* ms followed
MaxLiveHeight == 5       \* start heights 16 + 56 k px, k up to this

LiveInit ==
    /\ variant \in Variants
    /\ state = "PLAYING"
    /\ \E k \in 0 .. MaxLiveHeight :
       \E vy \in {-flap_impulse(variant), 0, max_fall_speed(variant)} :
          bird = [NewBird(variant) EXCEPT !.position_y = (16 + 56 * k) * U,
                                          !.velocity_y = vy * VU]
    /\ pipes \in {<<>>, <<AgedPipe(variant, 1000, FALSE)>>}
    /\ pipe_spawn_timer = IF pipes = <<>> THEN 0 ELSE 1000
    /\ score = 0
    /\ store = NoStore
    /\ high_score = InitialHighScore(variant, store)
    /\ running = TRUE
    /\ pc = "loop"
    /\ process = NewProcess
    /\ sounds = SoundLibrary(TRUE, CueNames)
    /\ death_sound_played \in BOOLEAN   \* TRUE in a round after a death
    /\ fuel = MaxLiveClock
    /\ last = Step("init", "PLAYING", FALSE, 0)

LiveNext ==
    \/ \E dt \in Durations : TickPlaying(dt)
    \/ \E dt \in Durations : TickGameOver(dt)

LiveSpec ==
    /\ LiveInit
    /\ [][LiveNext]_vars
    /\ WF_vars(\E dt \in Durations : TickPlaying(dt))
    /\ WF_vars(\E dt \in Durations : TickGameOver(dt))

(***************************** audio ***************************************)
\* the loop with every outcome of SoundLibrary.__init__: the mixer failed;
\* it works and all, some or none of the sound files were found
AudioSet ==
    {SoundLibrary(FALSE, {}), SoundLibrary(TRUE, CueNames),
     SoundLibrary(TRUE, {"wing", "hit"}), SoundLibrary(TRUE, {})}

AudioInit ==
    /\ variant \in Variants
    /\ state = "WELCOME"
    /\ bird = NewBird(variant)
    /\ pipes = <<>>
    /\ pipe_spawn_timer = 0
    /\ score = 0
    /\ store = NoStore
    /\ high_score = InitialHighScore(variant, store)
    /\ running = TRUE
    /\ pc = "loop"
    /\ process = NewProcess
    /\ sounds \in AudioSet
    /\ death_sound_played = FALSE
    /\ fuel = MaxExitClock
    /\ last = Step("init", "WELCOME", FALSE, 0)

AudioSpec == AudioInit /\ [][Next]_vars

(***************************** claims **************************************)
\* the last step was a tick that began in PLAYING: it ran the spawn, advance
\* and prune steps, check_collisions and update_score
PlayedTick == last.op = "tick" /\ last.from = "PLAYING"

\* the last step was a flap input handled in GAME_OVER: it ran reset()
JustReset == last.op = "flap" /\ last.from = "GAME_OVER"

\* C1: every change of Game.state is WELCOME -> PLAYING by a flap input,
\* PLAYING -> GAME_OVER by a tick whose check_collisions returned true, or
\* GAME_OVER -> WELCOME by a flap input
C1_StateTransitions ==
    [][state' # state =>
          \/ state = "WELCOME" /\ state' = "PLAYING" /\ last'.op = "flap"
          \/ state = "PLAYING" /\ state' = "GAME_OVER" /\ last'.op = "tick" /\ last'.hit
          \/ state = "GAME_OVER" /\ state' = "WELCOME" /\ last'.op = "flap"]_vars

\* C1 witness: the session has gone round the whole cycle and is back in
\* WELCOME through a reset
C1_Witness == state = "WELCOME" /\ JustReset

\* C2: no pipe of the collection has been added to the score more than
\* once, and a pipe is flagged passed exactly when it has been added once
C2_CountedOnce ==
    \A i \in DOMAIN pipes :
        /\ pipes[i].counted <= 1
        /\ pipes[i].passed <=> pipes[i].counted = 1

\* C2 witness: update_score has just run over a pipe that was behind the
\* bird, and counted, before this tick already
C2_Witness ==
    /\ PlayedTick
    /\ \E i \in DOMAIN pipes :
          /\ pipes[i].counted = 1
          /\ pipes[i].x + pipe_speed * last.dt * (U \div 1000) + pipe_w * U
                < ScoreLine(variant, bird) * U

\* C3: in a tick that began in PLAYING, every pipe whose right edge moves
\* behind the bird is in the collection afterwards and has been counted once
C3_EveryCrossingCounted ==
    [][(last'.op = "tick" /\ last'.from = "PLAYING") =>
          \A i \in DOMAIN pipes :
              LET x1 == pipes[i].x - pipe_speed * last'.dt * (U \div 1000)
              IN  x1 + pipe_w * U < ScoreLine(variant, bird') * U =>
                     \E j \in DOMAIN pipes' :
                        pipes'[j].x = x1 /\ pipes'[j].counted = 1]_vars

\* C4: bird.velocity_y never exceeds max_fall_speed
C4_TerminalVelocity == bird.velocity_y <= max_fall_speed(variant) * VU

\* C4 witness: a tick has just left the bird at terminal velocity
C4_Witness == last.op = "tick" /\ bird.velocity_y = max_fall_speed(variant) * VU

\* C5: the gap of every spawned pipe lies between int(0.25 * screen_height)
\* and base_y - 20 (base_y - 10 in mian)
C5_GapInsideMargins ==
    \A i \in DOMAIN pipes :
        /\ pipes[i].gap_y - pipes[i].gap_size \div 2 >= 128
        /\ pipes[i].gap_y + pipes[i].gap_size \div 2
              <= base_y - (IF variant = "mian" THEN 10 ELSE 20)

\* C5 witness: mian has spawned a pipe whose gap ends exactly at the lower
\* margin, at a positive score
C5_Witness ==
    /\ variant = "mian"
    /\ score > 0
    /\ \E i \in DOMAIN pipes : pipes[i].gap_y + pipes[i].gap_size \div 2 = base_y - 10

\* C6: in main1 every pipe has gap_size >= min_pipe_gap
C6_MinGap ==
    variant = "main1" => \A i \in DOMAIN pipes : pipes[i].gap_size >= 100

\* C6 witness: main1 has spawned a pipe at a score for which the unfloored
\* gap 140 - (score // 2) * 5 is below 100
C6_Witness ==
    /\ variant = "main1"
    /\ 140 - (score \div 2) * 5 < 100
    /\ \E i \in DOMAIN pipes : pipes[i].gap_size = 100

\* C7: after every update_score call, high_score >= score
C7_BestAtLeastCurrent == PlayedTick => high_score >= score

\* C8: the flap input that moves the session from WELCOME to PLAYING leaves
\* bird.velocity_y = -flap_impulse
C8_FirstFlapImpulse ==
    [][(state = "WELCOME" /\ state' = "PLAYING") =>
          bird'.velocity_y = -(IF variant = "mian" THEN 350 ELSE 280) * VU]_vars

\* C9: bird.dead is true exactly when state is GAME_OVER
C9_DeadIffGameOver == bird.dead <=> state = "GAME_OVER"

\* C9 witness: a tick has just detected a collision
C9_Witness == PlayedTick /\ last.hit /\ state = "GAME_OVER" /\ bird.dead

\* C10: after reset() the session is in WELCOME with no pipes, score 0,
\* pipe_spawn_timer 0 and a fresh bird at the start position
C10_ResetState ==
    JustReset =>
        /\ state = "WELCOME"
        /\ pipes = <<>>
        /\ score = 0
        /\ pipe_spawn_timer = 0
        /\ ~bird.dead
        /\ bird.velocity_y = 0
        /\ bird.rotation = 0
        /\ bird.position_x = (IF variant = "mian" THEN 48 ELSE 72)
        /\ bird.position_y = 256 * U

\* C10 witness: mian has been reset after a round in which a pipe was passed
C10_Witness == JustReset /\ variant = "mian" /\ high_score = 1

\* C11: Bird.flap(impulse) leaves a dead bird as it is and gives a live bird
\* velocity_y = -impulse, whatever its velocity was, and moves nothing else
\* than velocity and (in mian) rotation
C11_FlapOverwrites ==
    [][\A impulse \in ImpulseSet :
          FlapOne(impulse) =>
             IF bird.dead THEN bird' = bird
             ELSE /\ bird'.velocity_y = -impulse * VU
                  /\ bird'.position_y = bird.position_y
                  /\ bird'.position_x = bird.position_x
                  /\ ~bird'.dead]_vars

\* C11 witness: a live bird has been flapped twice and has the velocity of
\* one flap
C11_Witness ==
    /\ last.op = "flap2"
    /\ ~bird.dead
    /\ bird.velocity_y \in {-280 * VU, -350 * VU}

\* the hitbox of main1 and mainsonnet4 as [left, top, right, bottom]: the
\* 34 x 24 sprite rectangle at (position_x, int(position_y)) shrunk by 4 on
\* every side
C12_Hitbox ==
    [left |-> bird.position_x + 4, top |-> Trunc(bird.position_y, U) + 4,
     right |-> bird.position_x + 30, bottom |-> Trunc(bird.position_y, U) + 20]

\* the hitbox overlaps the top or the bottom volume of pipe p (each 48 wide
\* from int(x) + 2, 320 high, ending and starting at the gap)
C12_Overlaps(p) ==
    LET l == Trunc(p.x, U) + 2
        up == p.gap_y - p.gap_size \div 2
        down == p.gap_y + p.gap_size \div 2
        h == C12_Hitbox
    IN  /\ h.left < l + 48
        /\ h.right > l
        /\ \/ h.top < up /\ h.bottom > up - 320
           \/ h.top < down + 320 /\ h.bottom > down

\* C12: in main1 and mainsonnet4 check_collisions returns true exactly when
\* the hitbox bottom is >= base_y - 5, or its top is <= 0, or it overlaps a
\* volume of a pipe of the collection
C12_BoxCollision ==
    (last.op = "check" /\ variant # "mian") =>
        (last.hit <=> \/ C12_Hitbox.bottom >= 400 - 5
                      \/ C12_Hitbox.top <= 0
                      \/ \E i \in DOMAIN pipes : C12_Overlaps(pipes[i]))

\* C12 witness: contact is reported with the hitbox bottom exactly at
\* base_y - 5, away from the ceiling and with no pipe in the collection
C12_Witness ==
    /\ last.op = "check"
    /\ variant # "mian"
    /\ last.hit
    /\ C12_Hitbox.bottom = 395
    /\ pipes = <<>>

\* C13: update_score raises the score by the number k of pipes of the
\* collection that are not flagged and have their right edge behind the
\* bird, and flags all of them
C13_ScoreByCrossings ==
    [][last'.op = "score" =>
          LET crossing == {i \in DOMAIN pipes :
                              /\ ~pipes[i].passed
                              /\ pipes[i].x + 52 * U < bird.position_x * U}
          IN  /\ score' = score + Cardinality(crossing)
              /\ Len(pipes') = Len(pipes)
              /\ \A i \in crossing : pipes'[i].passed]_vars

\* C13 witness: two pipes were counted by one call
C13_Witness ==
    /\ last.op = "score"
    /\ score = 2
    /\ Len(pipes) = 2
    /\ \A i \in DOMAIN pipes : pipes[i].passed

C15_SaveLoadRoundTrip ==
    [][(last.op = "save" /\ last'.op = "reload" /\ store.writable /\ high_score >= 0)
          => high_score' = high_score]_vars

\* C15 witness: a two-digit high score has been saved and has come back from
\* the file
C15_Witness ==
    /\ last.op = "reload"
    /\ store.writable
    /\ high_score = 25
    /\ store.content = <<"2", "5">>

\* C16: when the process has ended and the file is writable, the next run
\* starts with the high_score this run ended with
C16_BestPersists ==
    (pc = "exited" /\ store.writable) =>
        InitialHighScore(variant, store) = high_score

\* C17: a load from a missing file or from content that is not an integer
\* gives high_score = 0; an update_score that cannot write leaves the file
\* as it is, raises the score by the pipes counted and the in-memory
\* high_score to the score where the score exceeds it, and the loop goes on
C17_StoreFailureIgnored ==
    [][/\ (last'.op = "load" /\ (~store.exists \/ store.content \in CorruptContents))
           => (high_score' = 0 /\ pc' = "loop")
       /\ (last'.op = "score" /\ ~store.writable)
           => /\ store' = store
              /\ score' = score + Cardinality({i \in DOMAIN pipes :
                                   /\ ~pipes[i].passed
                                   /\ pipes[i].x + 52 * U < bird.position_x * U})
              /\ high_score' = (IF score' > high_score THEN score' ELSE high_score)
              /\ pc' = "loop"
              /\ process' = process]_vars

\* C17 witness: update_score has raised the high score in memory while the
\* file could not be written and still holds something else
C17_Witness ==
    /\ last.op = "score"
    /\ ~store.writable
    /\ score > 0
    /\ high_score = score
    /\ \E i \in DOMAIN pipes : pipes[i].counted = 1
    /\ _load_high_score(store) # high_score

\* C18: a process that left the loop by a quit request ends with status 0
\* and has printed nothing; one that ended by an exception ends with status
\* 1 and has written exactly one line, to standard error
C18_ExitStatus ==
    pc = "exited" =>
        IF last.op = "raise"
        THEN process = [exit_status |-> 1, stdout |-> 0, stderr |-> 1]
        ELSE process = [exit_status |-> 0, stdout |-> 0, stderr |-> 0]

\* C19: a quit request leaves the process in the loop; after it events are
\* still handled without ending the loop, the rest of the iteration still
\* runs, and the loop ends right after it; nothing runs after the loop
C19_QuitEndsAfterTick ==
    /\ [][last'.op = "quit" => (pc' = "loop" /\ ~running')]_vars
    /\ [][(pc = "loop" /\ ~running) =>
             /\ ~running'
             /\ last'.op \in {"quit", "ignored", "flap"} => pc' = "loop"
             /\ last'.op = "tick" => pc' = "exited"]_vars
    /\ [][pc = "loop"]_vars
    /\ [](pc = "exited" => (last.op = "tick" /\ ~running))

\* C19 witness: the loop has ended after a last iteration that advanced a
\* round in PLAYING and detected a collision
C19_Witness ==
    /\ pc = "exited"
    /\ ~running
    /\ PlayedTick
    /\ last.hit
    /\ state = "GAME_OVER"

\* C20: handling an escape-key event sets running to false, in every
\* variant and every state
C20_EscapeQuits ==
    [][(Quit("K_ESCAPE") \/ Ignored("K_ESCAPE") \/ handle_input("K_ESCAPE"))
          => ~running']_vars

C22_Spawned ==
    /\ last.op = "tick"
    /\ last.from = "PLAYING"
    /\ pipe_spawn_timer = 0
    /\ pipes # <<>>

\* C22: in main1 a tick that spawns gives the new pipe the gap size
\* max(100, 140 - (score // 2) * 5) for the score before the tick; in the
\* collection no pipe has a larger gap than an older one, and the pipes
\* spawned at score 0 have the gap 140
C22_GapFollowsScore ==
    /\ [][(variant = "main1" /\ C22_Spawned') =>
             LET unfloored == 140 - (score \div 2) * 5
             IN  pipes'[Len(pipes')].gap_size
                    = (IF unfloored < 100 THEN 100 ELSE unfloored)]_vars
    /\ [](variant = "main1" =>
             /\ \A i, j \in DOMAIN pipes :
                    i < j => pipes[i].gap_size >= pipes[j].gap_size
             /\ score = 0 => \A i \in DOMAIN pipes : pipes[i].gap_size = 140)

\* C22 witness: a main1 tick has just spawned a pipe of gap 100 behind an
\* older pipe of gap 105
C22_Witness ==
    /\ variant = "main1"
    /\ C22_Spawned
    /\ Len(pipes) >= 2
    /\ pipes[1].gap_size = 105
    /\ pipes[Len(pipes)].gap_size = 100

\* C23: a PLAYING tick moves the bird first, then spawns, advances and
\* prunes the pipes, then tests for collision, then updates the score: the
\* collision test sees the moved bird and the advanced, pruned pipes; a pipe
\* spawned in the tick has advanced by the tick's dt; the score update has
\* run whether or not a collision was found, and has counted pipes of the
\* pruned collection only
C23_TickOrder ==
    [][\A dt \in Durations : TickPlaying(dt) =>
          LET b1 == Bird_update(variant, bird, dt, gravity(variant))
              fire == pipe_spawn_timer + dt >= pipe_spawn_interval(variant)
              kept == {i \in DOMAIN pipes :
                          Kept(variant, PipePair_update(pipes[i], dt))}
          IN  /\ bird'.position_y = b1.position_y
              /\ bird'.velocity_y = b1.velocity_y
              /\ (fire /\ pipes' # <<>>) =>
                     pipes'[Len(pipes')].x
                        = NewPipe(0, 0).x - pipe_speed * dt * (U \div 1000)
              /\ \A i \in DOMAIN pipes' : Kept(variant, pipes'[i])
              /\ last'.hit \in check_collisions(variant, b1, pipes')
              /\ (state' = "GAME_OVER") = last'.hit
              /\ \A i \in DOMAIN pipes' :
                     ScoresAgain(variant, bird', pipes'[i]) => pipes'[i].passed
              /\ score' - score
                    = Cardinality({i \in DOMAIN pipes' : pipes'[i].passed})
                      - Cardinality({i \in kept : pipes[i].passed})]_vars

\* C23 witness: a tick found a collision and counted a pipe all the same
C23_Witness ==
    /\ PlayedTick
    /\ last.hit
    /\ "point" \in {sounds.played[k] : k \in DOMAIN sounds.played}
    /\ pipes # <<>>

\* the number of flight ticks a fall from rest has made
C24_Ticks == (MaxFallTicks * FallDt - fuel) \div FallDt

\* C24: falling from rest with dt = 0.1 s, the velocity after k ticks is
\* min(k * gravity * 0.1, max_fall_speed): with gravity 700 it is
\* min(350, max_fall_speed) after five ticks; every tick moves the bird down
C24_FallFromRest ==
    /\ [](bird.velocity_y
            = Min(C24_Ticks * gravity(variant) * (VU \div 10),
                  max_fall_speed(variant) * VU))
    /\ []((gravity(variant) = 700 /\ C24_Ticks = 5) =>
             bird.velocity_y = Min(350, max_fall_speed(variant)) * VU)
    /\ [][FallTick => bird'.position_y > bird.position_y]_vars

\* C24 witness: five ticks under gravity 700 have been made
C24_Witness ==
    /\ gravity(variant) = 700
    /\ last.op = "fall"
    /\ C24_Ticks = 5
    /\ bird.velocity_y = 350 * VU

\* C25: the state branch of a tick in GAME_OVER moves the bird, under gravity
\* times 1.5 in main1 and mainsonnet4, and leaves the pipes, the spawn
\* timer, the score and the high score as they were
C25_GameOverTickSettlesOnly ==
    [][(state = "GAME_OVER" /\ last'.op = "tick") =>
          /\ bird' = Bird_update(variant, bird, last'.dt,
                         IF variant = "mian" THEN gravity(variant)
                         ELSE (gravity(variant) * 3) \div 2)
          /\ pipes' = pipes
          /\ pipe_spawn_timer' = pipe_spawn_timer
          /\ score' = score
          /\ high_score' = high_score
          /\ state' = "GAME_OVER"]_vars

\* C25 witness: a GAME_OVER tick was made in main1 or mainsonnet4 with a
\* counted pipe and an uncounted pipe in the collection and the spawn timer
\* part-way
C25_Witness ==
    /\ variant # "mian"
    /\ last.op = "tick"
    /\ last.from = "GAME_OVER"
    /\ pipe_spawn_timer > 0
    /\ score > 0
    /\ \E i, j \in DOMAIN pipes : pipes[i].passed /\ ~pipes[j].passed

\* C26: in WELCOME there are no pipes, the score and the spawn timer are 0,
\* the bird is alive and at rest; a WELCOME tick leaves all of that, and the
\* state, as it is
C26_WelcomeIsClean ==
    /\ [](state = "WELCOME" =>
             /\ pipes = <<>>
             /\ score = 0
             /\ pipe_spawn_timer = 0
             /\ ~bird.dead
             /\ bird.velocity_y = 0)
    /\ [][(state = "WELCOME" /\ last'.op = "tick") =>
             /\ state' = "WELCOME"
             /\ pipes' = pipes
             /\ score' = score
             /\ high_score' = high_score
             /\ pipe_spawn_timer' = pipe_spawn_timer
             /\ bird'.velocity_y = 0]_vars

\* C26 witness: a WELCOME tick was made after a round that ended with the
\* bird on the ground
C26_Witness ==
    /\ state = "WELCOME"
    /\ last.op = "tick"
    /\ death_sound_played
    /\ bird.position_y # StartY * U

\* C27: after every tick that ends in PLAYING, in every variant, the bird's
\* rectangle is below the ceiling (top > 0) and above the ground line, and
\* overlaps no pipe rectangle (in mian, where the test is by pixel masks: the
\* centre pixel of the bird is in no pipe rectangle)
C27_NoContactWhilePlaying ==
    (state = "PLAYING" /\ PlayedTick) =>
        /\ Bird_rect(variant, bird).top > 0
        /\ Bird_rect(variant, bird).bottom < base_y
        /\ \A i \in DOMAIN pipes : \A k \in 1 .. 2 :
              ~colliderect(IF variant = "mian" THEN BirdCore(variant, bird)
                                               ELSE Bird_rect(variant, bird),
                           PipePair_rects(variant, pipes[i])[k])

\* C28: a tick adds at most one pipe, however long it is; a tick that
\* spawns leaves the timer at 0 and any other PLAYING tick adds dt to it; the
\* timer is at least 0 and below pipe_spawn_interval after every step, and
\* outside PLAYING it changes only by being reset to 0
C28_SpawnTimer ==
    /\ [](0 <= pipe_spawn_timer /\ pipe_spawn_timer < pipe_spawn_interval(variant))
    /\ [][\A dt \in Durations : TickPlaying(dt) =>
             LET fire == pipe_spawn_timer + dt >= pipe_spawn_interval(variant)
                 kept == {i \in DOMAIN pipes :
                             Kept(variant, PipePair_update(pipes[i], dt))}
             IN  /\ Len(pipes') <= Cardinality(kept) + 1
                 /\ Len(pipes') > Cardinality(kept) => fire
                 /\ fire => pipe_spawn_timer' = 0
                 /\ ~fire => (pipe_spawn_timer' = pipe_spawn_timer + dt
                               /\ Len(pipes') = Cardinality(kept))]_vars
    /\ [][Len(pipes') <= Len(pipes) + 1]_vars
    /\ [][state # "PLAYING" => pipe_spawn_timer' \in {pipe_spawn_timer, 0}]_vars

\* C28 witness: a PLAYING tick longer than the spawn interval has added one
\* pipe to the pipe there was and left the timer at 0
C28_Witness ==
    /\ PlayedTick
    /\ last.dt > pipe_spawn_interval(variant)
    /\ pipe_spawn_timer = 0
    /\ Len(pipes) = 2
    /\ pipes[2].x = NewPipe(0, 0).x - pipe_speed * last.dt * (U \div 1000)

\* C29 as stated: the pipes are in the collection with strictly increasing
\* x, any two consecutive ones at least pipe_speed * pipe_spawn_interval
\* apart
C29_SpacedByInterval ==
    \A i \in 1 .. Len(pipes) - 1 :
        pipes[i + 1].x - pipes[i].x
            >= pipe_speed * pipe_spawn_interval(variant) * (U \div 1000)

\* C29, amended: the pipes are in the collection with strictly increasing x;
\* a PLAYING tick leaves the pipes it keeps in their order, having taken
\* pipes from the front only, and the pipe it spawns is the last
C29_SpawnOrder ==
    /\ [](\A i \in 1 .. Len(pipes) - 1 : pipes[i].x < pipes[i + 1].x)
    /\ [][\A dt \in Durations : TickPlaying(dt) =>
             LET fire == pipe_spawn_timer + dt >= pipe_spawn_interval(variant)
                 m == Len(pipes)
                 n == Len(pipes')
                 k == m + (IF fire THEN 1 ELSE 0) - n
             IN  /\ k >= 0
                 /\ \A i \in 1 .. n :
                       IF k + i <= m
                       THEN /\ pipes'[i].x = PipePair_update(pipes[k + i], dt).x
                            /\ pipes'[i].gap_y = pipes[k + i].gap_y
                            /\ pipes'[i].gap_size = pipes[k + i].gap_size
                       ELSE pipes'[i].x
                               = NewPipe(0, 0).x - pipe_speed * dt * (U \div 1000)]_vars

\* C29 witness: after a PLAYING tick two consecutive pipes are closer than
\* pipe_speed * pipe_spawn_interval
C29_Witness ==
    /\ PlayedTick
    /\ Len(pipes) >= 2
    /\ pipes[1].x < pipes[2].x
    /\ pipes[2].x - pipes[1].x
          < pipe_speed * pipe_spawn_interval(variant) * (U \div 1000)

\* C30: in main1 and mainsonnet4 neither rectangle of a pipe that is flagged
\* passed overlaps the bird's rectangle, in the tick that flags it or in any
\* later step
C30_PassedPipesAreClear ==
    variant # "mian" =>
        \A i \in DOMAIN pipes :
            pipes[i].passed =>
                /\ ~colliderect(Bird_rect(variant, bird), PipePair_rects(variant, pipes[i])[1])
                /\ ~colliderect(Bird_rect(variant, bird), PipePair_rects(variant, pipes[i])[2])
                /\ PipePair_rects(variant, pipes[i])[1].right
                      <= Bird_rect(variant, bird).left

\* C30 witness: a short tick has flagged a pipe while the bird was level with
\* one of the pipe's rectangles, the rectangle's right edge less than the
\* tick's way behind the bird's rectangle
C30_Witness ==
    /\ variant # "mian"
    /\ PlayedTick
    /\ last.dt <= 250
    /\ "point" \in {sounds.played[k] : k \in DOMAIN sounds.played}
    /\ \E i \in DOMAIN pipes :
          /\ pipes[i].passed
          /\ \/ Bird_rect(variant, bird).top
                   < PipePair_rects(variant, pipes[i])[1].bottom
             \/ Bird_rect(variant, bird).bottom
                   > PipePair_rects(variant, pipes[i])[2].top
          /\ Bird_rect(variant, bird).left - PipePair_rects(variant, pipes[i])[1].right
                < (pipe_speed * last.dt) \div 1000

\* the rectangle the collision test of the variant can meet a pipe in
C31_Hitbox == IF variant = "mian" THEN RotatedBounds(variant, bird)
                                  ELSE Bird_rect(variant, bird)

\* C31: no PLAYING tick flags a pipe that was entirely ahead of the bird's
\* hitbox before the tick, or that the tick itself spawned: a pipe is counted
\* only after a collision test has seen it level with the bird
C31_ScoredPipesWereTested ==
    [][\A dt \in Durations : TickPlaying(dt) =>
          LET fire == pipe_spawn_timer + dt >= pipe_spawn_interval(variant)
              m == Len(pipes)
              k == m + (IF fire THEN 1 ELSE 0) - Len(pipes')
          IN  \A i \in DOMAIN pipes' :
                 pipes'[i].passed =>
                    /\ k + i <= m
                    /\ \/ pipes[k + i].passed
                       \/ PipePair_rects(variant, pipes[k + i])[1].left
                             < C31_Hitbox.right]_vars

\* C32: a round in PLAYING that gets no flap and keeps ticking ends in
\* GAME_OVER
C32_RoundEnds == (state = "PLAYING") ~> (state = "GAME_OVER")

\* C32 witness: one tick took the bird from above the ground line to more
\* than 100 px below it, and the collision was found
C32_Witness ==
    /\ state = "GAME_OVER"
    /\ PlayedTick
    /\ last.hit
    /\ Bird_rect(variant, bird).bottom > base_y + 100

\* ms of GAME_OVER ticks a dead bird is given to come down
MaxLanding == 2000

\* the number of times the cue was requested in the last step
C33_Cues(name) == Cardinality({k \in DOMAIN sounds.played : sounds.played[k] = name})

\* C33: after a death, with no input, 'die' is requested: once, in the first
\* GAME_OVER tick that leaves the bottom of the bird's rectangle at
\* base_y - 1 or below, and not again while death_sound_played is set; the
\* death itself clears death_sound_played and nothing else does
C33_DieCueOnce ==
    /\ [][C33_Cues("die")' > 0 =>
             /\ C33_Cues("die")' = 1
             /\ state = "GAME_OVER"
             /\ ~death_sound_played
             /\ death_sound_played'
             /\ Bird_rect(variant, bird').bottom >= base_y - 1]_vars
    /\ [][(state = "GAME_OVER" /\ last'.op = "tick" /\ ~death_sound_played
              /\ Bird_rect(variant, bird').bottom >= base_y - 1)
             => C33_Cues("die")' = 1]_vars
    /\ [][(state = "PLAYING" /\ state' = "GAME_OVER") => ~death_sound_played']_vars
    /\ [][(death_sound_played /\ ~death_sound_played')
             => (state = "PLAYING" /\ state' = "GAME_OVER")]_vars
    /\ ((state = "GAME_OVER" /\ ~death_sound_played /\ fuel >= MaxLanding)
           ~> (C33_Cues("die") = 1))

\* C33 witness: the bird died above the ground in a round that began with
\* death_sound_played set, fell, and 'die' has just been requested
C33_Witness ==
    /\ state = "GAME_OVER"
    /\ last.op = "tick"
    /\ last.from = "GAME_OVER"
    /\ C33_Cues("die") = 1
    /\ death_sound_played
    /\ pipes # <<>>

\* C34: in GAME_OVER the bottom of the bird's rectangle is never below the
\* ground line base_y, and once it is on the ground line a GAME_OVER tick
\* leaves position_y as it is
C34_DeadBirdSettles ==
    /\ [](state = "GAME_OVER" => Bird_rect(variant, bird).bottom <= base_y)
    /\ [][(state = "GAME_OVER" /\ state' = "GAME_OVER"
              /\ Bird_rect(variant, bird).bottom >= base_y)
             => bird'.position_y = bird.position_y]_vars

\* C35: for every pipe in the collection the top of the bottom rectangle
\* minus the bottom of the top rectangle is the pipe's gap_size, and the two
\* edges are equally far from gap_y
C35_OpeningIsGapSize ==
    \A i \in DOMAIN pipes :
        LET r == PipePair_rects(variant, pipes[i])
        IN  /\ r[2].top - r[1].bottom = pipes[i].gap_size
            /\ r[2].top - pipes[i].gap_y = pipes[i].gap_y - r[1].bottom

\* C36: no step lowers high_score, and the reset on a flap in GAME_OVER
\* leaves it as it is while it sets the score to 0
C36_HighScoreNeverDrops ==
    /\ [][high_score' >= high_score]_vars
    /\ [][(state = "GAME_OVER" /\ state' = "WELCOME") =>
             (high_score' = high_score /\ score' = 0)]_vars

\* C36 witness: a round raised the score and the high score, and the reset
\* that followed zeroed the score
C36_Witness ==
    /\ JustReset
    /\ state = "WELCOME"
    /\ score = 0
    /\ variant = "mian"
    /\ high_score > 0

\* the range of the easing targets of a variant, in angle units
C37_Lowest(v) == IF v = "mainsonnet4" THEN -30 * AU ELSE -90 * AU
C37_Highest(v) ==
    IF v = "main1" THEN 25 * AU ELSE IF v = "mainsonnet4" THEN 90 * AU ELSE 45 * AU

\* C37: whatever the frame durations, the rotation stays in the range of the
\* easing targets, [-90, 25] in main1 and [-30, 90] in mainsonnet4, and in
\* [-90, 45] in mian
C37_RotationInRange ==
    /\ bird.rotation >= C37_Lowest(variant)
    /\ bird.rotation <= C37_Highest(variant)

====
